---- MODULE Spec2Model ----
(***************************************************************************)
(* Drag-to-impulse controller of bevy_dragging_test (src/src/main.rs).     *)
(*                                                                         *)
(* f32 world lengths are modelled in fixed point, one unit = 0.01 world    *)
(* units (so 0.05 is 5 and Vec3::ONE is <<100,100,100>>); products are     *)
(* rounded toward zero.  Pointer distances are whole pixels.  Direction    *)
(* vectors (camera right/up, rotation columns) are exact integer unit      *)
(* vectors.  A float NaN is carried as a separate flag.                    *)
(***************************************************************************)
EXTENDS Integers, Sequences, FiniteSets, TLC

(***************************************************************************)
(* Bounds of the model                                                     *)
(***************************************************************************)
MaxEventsPerTick == 2   \* picking events delivered in one frame
MaxSlides == 1          \* the box slides at most this many steps along x
MaxZoomOut == 1         \* the camera zooms out at most this many steps

(***************************************************************************)
(* glam vector and matrix algebra                                          *)
(***************************************************************************)
ZERO == <<0, 0, 0>>
ONE == <<100, 100, 100>>
NEG_ONE == <<-100, -100, -100>>
Vec2Zero == <<0, 0>>

\* f32 division of a by b > 0, rounded toward zero
DivT(a, b) == IF a >= 0 THEN a \div b ELSE -((-a) \div b)

Abs(x) == IF x >= 0 THEN x ELSE -x
MinI(a, b) == IF a <= b THEN a ELSE b
MaxI(a, b) == IF a >= b THEN a ELSE b

Add(a, b) == <<a[1] + b[1], a[2] + b[2], a[3] + b[3]>>
Sub(a, b) == <<a[1] - b[1], a[2] - b[2], a[3] - b[3]>>
Neg(a) == <<-a[1], -a[2], -a[3]>>
Scale(k, a) == <<k * a[1], k * a[2], k * a[3]>>
DivVec(a, d) == <<DivT(a[1], d), DivT(a[2], d), DivT(a[3], d)>>
dot(a, b) == a[1] * b[1] + a[2] * b[2] + a[3] * b[3]
cross(a, b) ==
    << a[2] * b[3] - a[3] * b[2],
       a[3] * b[1] - a[1] * b[3],
       a[1] * b[2] - a[2] * b[1] >>
SetY(a, y) == <<a[1], y, a[3]>>

RECURSIVE SqrtSearch(_, _, _)
SqrtSearch(n, lo, hi) ==
    IF lo >= hi THEN lo
    ELSE LET mid == (lo + hi + 1) \div 2
         IN IF mid * mid <= n THEN SqrtSearch(n, mid, hi)
                              ELSE SqrtSearch(n, lo, mid - 1)

\* Vec3::length
length(a) == SqrtSearch(dot(a, a), 0, 40000)

\* Vec3::clamp without the clamping (a dropped clamp)
clamp_none(a, lo, hi) == a

\* Vec3::clamp: self.max(min).min(max), per axis
clamp(a, lo, hi) ==
    << MinI(MaxI(a[1], lo[1]), hi[1]),
       MinI(MaxI(a[2], lo[2]), hi[2]),
       MinI(MaxI(a[3], lo[3]), hi[3]) >>

\* Mat3 is the triple of its columns <<x_axis, y_axis, z_axis>>
I3 == << <<1, 0, 0>>, <<0, 1, 0>>, <<0, 0, 1>> >>
RotY90 == << <<0, 0, -1>>, <<0, 1, 0>>, <<1, 0, 0>> >>

MulMV(m, v) == Add(Add(Scale(v[1], m[1]), Scale(v[2], m[2])), Scale(v[3], m[3]))
MulMM(a, b) == <<MulMV(a, b[1]), MulMV(a, b[2]), MulMV(a, b[3])>>
Transpose(m) ==
    << <<m[1][1], m[2][1], m[3][1]>>,
       <<m[1][2], m[2][2], m[3][2]>>,
       <<m[1][3], m[2][3], m[3][3]>> >>

\* Mat3::inverse: cofactor columns divided by the determinant, transposed
Mat3Inverse(m) ==
    LET tmp0 == cross(m[2], m[3])
        tmp1 == cross(m[3], m[1])
        tmp2 == cross(m[1], m[2])
        det == dot(m[3], tmp2)
    IN Transpose(<< DivVec(Scale(det, tmp0), det * det),
                    DivVec(Scale(det, tmp1), det * det),
                    DivVec(Scale(det, tmp2), det * det) >>)

\* GlobalTransform: an affine map [matrix3, translation]
Affine(m, t) == [matrix3 |-> m, translation |-> t]

\* an inverse that negates the translation but keeps the rotation
inverse_no_rot(t) == Affine(t.matrix3, Neg(MulMV(t.matrix3, t.translation)))

\* Affine3A::inverse
inverse(t) ==
    LET m == Mat3Inverse(t.matrix3)
    IN Affine(m, Neg(MulMV(m, t.translation)))

\* GlobalTransform::transform_point / Affine3A::transform_point3
transform_point(t, p) == Add(MulMV(t.matrix3, p), t.translation)

right(t) == t.matrix3[1]
up(t) == t.matrix3[2]

(***************************************************************************)
(* Scene constants of setup                                                *)
(***************************************************************************)
GAIN == 150

Buttons == {"Primary", "Secondary", "Middle"}
Systems == {"accumulate_mouse_events_system", "update_camera_system", "drag_system"}

\* the box: SpatialBundle at (0, 0.05, 0), unrotated
BoxTransform == Affine(I3, <<0, 5, 0>>)

\* points of the box's surface a pointer ray can hit, in the box's frame
LocalHits == { <<0, 5, 0>>, <<5, 5, 0>> }

\* cumulative pointer distances (pixels) a Pointer<Drag> event can carry
DragDistances == { <<200, 0>>, <<0, -50>> }

\* what the physics step can do to the box in one frame: a rotation about
\* its centre of mass followed by a translation
Motions ==
    { [rot |-> I3, dt |-> ZERO],
      [rot |-> RotY90, dt |-> ZERO],
      [rot |-> I3, dt |-> <<10, 0, 0>>],
      [rot |-> I3, dt |-> <<-10, 0, 0>>] }

\* the box at rest
RestMotions == { m \in Motions : m.rot = I3 /\ m.dt = ZERO }

\* camera: focus (0, 0.1, 0), translation (0, 0.5, 0), looking down
CameraFocus == <<0, 10, 0>>
CameraStart == <<0, 50, 0>>

\* orbit directions (focus -> camera) with the look-at rotation of each
OrbitDirs == << <<0, 1, 0>>, <<1, 0, 0>> >>
OrbitRots ==
    << << <<1, 0, 0>>, <<0, 0, -1>>, <<0, 1, 0>> >>,
       << <<0, 0, -1>>, <<0, 1, 0>>, <<1, 0, 0>> >> >>

ZoomStep == 475
RadiusMin == 5

\* raw pointer input of one frame the camera accumulator can see
CameraInputs ==
    { [orbit |-> 0, scroll |-> 0],
      [orbit |-> 1, scroll |-> 0],
      [orbit |-> 0, scroll |-> -1] }

(***************************************************************************)
(* State                                                                   *)
(***************************************************************************)
VARIABLES
    session,     \* the box's DragTarget component (present or not)
    body,        \* the box's GlobalTransform
    camera,      \* PanOrbitCamera and the camera's Transform
    camGlobal,   \* the camera's GlobalTransform (propagated after Update)
    acc,         \* the pointer input accumulator of the camera module
    ext,         \* the box's ExternalImpulse
    unread,      \* Pointer<Drag> events drag_system's EventReader has not read
    ran,         \* systems of the Update schedule that ran in this frame
    nEv,         \* picking events delivered in this frame
    crashed,     \* a system panicked
    lastEvent,   \* history: the picking event delivered last, until Update starts
    creator,     \* history: button of the event that inserted the session
    ended,       \* history: a drag-end came and no primary drag-start since
    expected,    \* history: distance of the last drag event of this session
    grab,        \* history: where the body's motions carried the hit point
    calc         \* history: what drag_system computed in this frame

vars == << session, body, camera, camGlobal, acc, ext, unread, ran, nEv,
           crashed, lastEvent, creator, ended, expected, grab, calc >>

NoSession ==
    [present |-> FALSE, camera |-> "none", origin |-> ZERO, offset |-> ZERO,
     distance |-> Vec2Zero]

NoEvent == [kind |-> "none", button |-> "none", hasPos |-> FALSE]

NoCalc ==
    [valid |-> FALSE, target |-> ZERO, point |-> ZERO, com |-> ZERO,
     origin |-> ZERO, distance |-> Vec2Zero]

Finite(v) == [nan |-> FALSE, v |-> v]
NaN == [nan |-> TRUE, v |-> ZERO]

\* ExternalImpulse::default()
ExternalImpulseDefault == [impulse |-> ZERO, torque_impulse |-> Finite(ZERO)]

(***************************************************************************)
(* setup: the drag-start and drag-end listeners of the box                 *)
(***************************************************************************)
\* the Pointer<DragStart> events the picking backend can deliver now
DragStartEvents ==
    { [button |-> b, camera |-> "camera", position |-> [some |-> FALSE, v |-> ZERO]]
        : b \in Buttons }
    \cup
    { [button |-> b, camera |-> "camera",
       position |-> [some |-> TRUE, v |-> transform_point(body, h)]]
        : b \in Buttons, h \in LocalHits }

PrimaryHits == { ev \in DragStartEvents : ev.button = "Primary" /\ ev.position.some }

\* a listener that inserts a session whatever the button
IsPrimary_any(button) == TRUE

\* listener.button == PointerButton::Primary
IsPrimary(button) == button = "Primary"

\* a listener that skips an event without a position
Panics_never(ev) == FALSE

\* .expect("backend does not support `position`") on a None position
Panics(ev) == IsPrimary(ev.button) /\ ~ev.position.some

\* the DragTarget inserted by the drag-start listener
NewDragTarget(ev, target_transform) ==
    [present |-> TRUE,
     camera |-> ev.camera,
     origin |-> ev.position.v,
     offset |-> transform_point(inverse(target_transform), ev.position.v),
     distance |-> Vec2Zero]

Inserts(ev) == IsPrimary(ev.button) /\ ev.position.some /\ ~Panics(ev)

\* a target_remove that only honours the primary button
target_remove_primary(s, button) == IF button = "Primary" THEN NoSession ELSE s

\* On::<Pointer<DragEnd>>::target_remove::<DragTarget>()
target_remove(s, button) == NoSession

(***************************************************************************)
(* drag_system                                                             *)
(***************************************************************************)
\* the offset with its y component left as computed
drag_target_offset_keep_y(t, c) ==
    Add(c.translation,
        Sub(Scale(100 * t.distance[1], right(c)),
            Scale(100 * t.distance[2], up(c))))

\* camera translation + distance.x * right - distance.y * up, y zeroed
drag_target_offset(t, c) ==
    SetY(Add(c.translation,
             Sub(Scale(100 * t.distance[1], right(c)),
                 Scale(100 * t.distance[2], up(c)))), 0)

\* |camera translation - origin| * 0.0011, in millionths
zoom_factor(t, c) == length(Sub(c.translation, t.origin)) * 11

drag_target(t, c) ==
    Add(t.origin, DivVec(Scale(zoom_factor(t, c), drag_target_offset(t, c)), 1000000))

drag_point(t, target_transform) == transform_point(target_transform, t.offset)

drag_impulse(t, target_transform, c) ==
    DivVec(Scale(GAIN, clamp(Sub(drag_target(t, c), drag_point(t, target_transform)),
                            NEG_ONE, ONE)), 100)

drag_com_offset(t, target_transform) ==
    SetY(Sub(drag_point(t, target_transform), target_transform.translation), 0)

\* Vec3::project_onto: rhs * self.dot(rhs) * rhs.dot(rhs).recip();
\* the reciprocal of 0 is infinite and 0 * infinity is NaN
project_onto(a, rhs) ==
    IF dot(rhs, rhs) = 0 THEN NaN
    ELSE Finite(DivVec(Scale(dot(a, rhs), rhs), dot(rhs, rhs)))

orthogonal_vector(com, impulse) ==
    LET p == project_onto(com, impulse)
    IN IF p.nan THEN NaN ELSE Finite(Sub(com, p.v))

torque_impulse(com, impulse) ==
    LET o == orthogonal_vector(com, impulse)
    IN IF o.nan THEN NaN ELSE Finite(DivVec(cross(o.v, impulse), 100))

\* drag_events.iter().last(): the distance the session ends up with
last_distance(t, events) ==
    IF Len(events) > 0 THEN events[Len(events)].distance ELSE t.distance

(***************************************************************************)
(* camera module (pan-orbit controller)                                    *)
(***************************************************************************)
\* camera placed at focus + radius * direction, looking at the focus
CameraTransform(dir, radius) ==
    Affine(OrbitRots[dir], Add(CameraFocus, Scale(radius, OrbitDirs[dir])))

ZeroInput == [orbit |-> 0, scroll |-> 0]

\* radius <- max(radius - scroll * sensitivity, radius_min)
Zoom(radius, scroll) == MaxI(radius - scroll * ZoomStep, RadiusMin)

NextDir(dir, orbit) == ((dir - 1 + orbit) % Len(OrbitDirs)) + 1

(***************************************************************************)
(* Initial state: the world setup leaves behind                            *)
(***************************************************************************)
Init ==
    /\ session = NoSession
    /\ body = BoxTransform
    /\ camera = [radius |-> length(CameraStart), dir |-> 1,
                 transform |-> Affine(OrbitRots[1], CameraStart)]
    /\ camGlobal = Affine(OrbitRots[1], CameraStart)
    /\ acc = ZeroInput
    /\ ext = ExternalImpulseDefault
    /\ unread = << >>
    /\ ran = {}
    /\ nEv = 0
    /\ crashed = FALSE
    /\ lastEvent = NoEvent
    /\ creator = "none"
    /\ ended = FALSE
    /\ expected = Vec2Zero
    /\ grab = ZERO
    /\ calc = NoCalc

(***************************************************************************)
(* Picking events, delivered before the Update schedule of a frame         *)
(***************************************************************************)
CanDeliver == ~crashed /\ ran = {} /\ nEv < MaxEventsPerTick

\* DRAG START listener of the box
PointerDragStart(ev) ==
    /\ CanDeliver
    /\ nEv' = nEv + 1
    /\ lastEvent' = [kind |-> "DragStart", button |-> ev.button,
                     hasPos |-> ev.position.some]
    /\ crashed' = Panics(ev)
    /\ IF Inserts(ev)
       THEN /\ session' = NewDragTarget(ev, body)
            /\ creator' = ev.button
            /\ expected' = Vec2Zero
            /\ grab' = ev.position.v
       ELSE UNCHANGED << session, creator, expected, grab >>
    /\ ended' = IF ev.button = "Primary" THEN FALSE ELSE ended
    /\ UNCHANGED << body, camera, camGlobal, acc, ext, unread, ran, calc >>

\* a Pointer<Drag> event is written to the event queue
PointerDrag(d) ==
    /\ CanDeliver
    /\ nEv' = nEv + 1
    /\ lastEvent' = [kind |-> "Drag", button |-> "none", hasPos |-> FALSE]
    /\ unread' = Append(unread, [distance |-> d, age |-> 0])
    /\ expected' = IF session.present THEN d ELSE expected
    /\ UNCHANGED << session, body, camera, camGlobal, acc, ext, ran, crashed,
                    creator, ended, grab, calc >>

\* DRAG END listener of the box
PointerDragEnd(button) ==
    /\ CanDeliver
    /\ nEv' = nEv + 1
    /\ lastEvent' = [kind |-> "DragEnd", button |-> button, hasPos |-> FALSE]
    /\ session' = target_remove(session, button)
    /\ ended' = TRUE
    /\ creator' = IF session'.present THEN creator ELSE "none"
    /\ grab' = IF session'.present THEN grab ELSE ZERO
    /\ UNCHANGED << body, camera, camGlobal, acc, ext, unread, ran, crashed,
                    expected, calc >>

(***************************************************************************)
(* The Update schedule: three systems with no ordering between them        *)
(***************************************************************************)
CanRun(system) == ~crashed /\ system \notin ran

accumulate_mouse_events_system(input) ==
    /\ CanRun("accumulate_mouse_events_system")
    /\ ran' = ran \cup {"accumulate_mouse_events_system"}
    /\ acc' = [orbit |-> acc.orbit + input.orbit, scroll |-> acc.scroll + input.scroll]
    /\ lastEvent' = NoEvent
    /\ UNCHANGED << session, body, camera, camGlobal, ext, unread, nEv, crashed,
                    creator, ended, expected, grab, calc >>

update_camera_system ==
    /\ CanRun("update_camera_system")
    /\ ran' = ran \cup {"update_camera_system"}
    /\ LET radius == Zoom(camera.radius, acc.scroll)
           dir == NextDir(camera.dir, acc.orbit)
       IN IF acc = ZeroInput \/ radius > length(CameraStart) + MaxZoomOut * ZoomStep
          THEN camera' = camera
          ELSE camera' = [radius |-> radius, dir |-> dir,
                          transform |-> CameraTransform(dir, radius)]
    /\ acc' = ZeroInput
    /\ lastEvent' = NoEvent
    /\ UNCHANGED << session, body, camGlobal, ext, unread, nEv, crashed,
                    creator, ended, expected, grab, calc >>

drag_system ==
    /\ CanRun("drag_system")
    /\ ran' = ran \cup {"drag_system"}
    /\ IF session.present
       THEN LET target == [session EXCEPT !.distance = last_distance(session, unread)]
                impulse == drag_impulse(target, body, camGlobal)
                com == drag_com_offset(target, body)
            IN /\ session' = target
               /\ unread' = << >>
               /\ ext' = [impulse |-> impulse,
                          torque_impulse |-> torque_impulse(com, impulse)]
               /\ calc' = [valid |-> TRUE,
                           target |-> drag_target(target, camGlobal),
                           point |-> drag_point(target, body),
                           com |-> com,
                           origin |-> target.origin,
                           distance |-> target.distance]
       ELSE UNCHANGED << session, unread, ext, calc >>
    /\ lastEvent' = NoEvent
    /\ UNCHANGED << body, camera, camGlobal, acc, nEv, crashed, creator, ended,
                    expected, grab >>

(***************************************************************************)
(* End of the frame: physics step, transform propagation, Events::update   *)
(***************************************************************************)
Moved(m, t) == Affine(MulMM(m.rot, t.matrix3), Add(t.translation, m.dt))

Carried(m, t, p) == Add(Add(MulMV(m.rot, Sub(p, t.translation)), t.translation), m.dt)

AgeEvents(events) ==
    LET kept == SelectSeq(events, LAMBDA e : e.age = 0)
    IN [i \in 1..Len(kept) |-> [kept[i] EXCEPT !.age = 1]]

EndFrame(m) ==
    /\ ~crashed
    /\ ran = Systems
    /\ Moved(m, body).translation[1] \in 0..(10 * MaxSlides)
    /\ body' = Moved(m, body)
    /\ grab' = IF session.present THEN Carried(m, body, grab) ELSE grab
    /\ ext' = ExternalImpulseDefault
    /\ camGlobal' = camera.transform
    /\ unread' = AgeEvents(unread)
    /\ ran' = {}
    /\ nEv' = 0
    /\ calc' = NoCalc
    /\ UNCHANGED << session, camera, acc, crashed, lastEvent, creator, ended,
                    expected >>

\* Session lifecycle, scheduling and the motion of the box: every button and
\* a missing hit position, while the pointer does not steer the camera.
Next ==
    \/ \E ev \in DragStartEvents : PointerDragStart(ev)
    \/ \E d \in DragDistances : PointerDrag(d)
    \/ \E b \in Buttons : PointerDragEnd(b)
    \/ accumulate_mouse_events_system(ZeroInput)
    \/ update_camera_system
    \/ drag_system
    \/ \E m \in Motions : EndFrame(m)

Spec == Init /\ [][Next]_vars

\* Force computation under a moving camera: primary-button drags with a hit
\* position and every camera input, while the box stays at rest.
NextForce ==
    \/ \E ev \in PrimaryHits : PointerDragStart(ev)
    \/ \E d \in DragDistances : PointerDrag(d)
    \/ PointerDragEnd("Primary")
    \/ \E input \in CameraInputs : accumulate_mouse_events_system(input)
    \/ update_camera_system
    \/ drag_system
    \/ \E m \in RestMotions : EndFrame(m)

SpecForce == Init /\ [][NextForce]_vars

(***************************************************************************)
(* Claims                                                                  *)
(***************************************************************************)
PrimaryNoPosition == [kind |-> "DragStart", button |-> "Primary", hasPos |-> FALSE]

\* C1: after any drag-end event, whatever its button, the session is gone
\* and, until the next primary-button drag-start, drag_system computes
\* nothing and leaves ExternalImpulse as the physics step left it.
C1_DragEndStopsImpulses ==
    ended => /\ ~session.present
             /\ ~calc.valid
             /\ ext = ExternalImpulseDefault

\* C1 witness: a session that received a drag event was ended by a
\* drag-end, and drag_system has run in a frame after it.
C1_Witness ==
    /\ ended
    /\ expected # Vec2Zero
    /\ "drag_system" \in ran

\* C2: a session exists only if a primary-button drag-start inserted it, and
\* a drag-start with any other button leaves the session (presence and all
\* four fields) unchanged.
C2_OnlyPrimaryCreates ==
    /\ [](session.present => creator = "Primary")
    /\ [][(/\ nEv' = nEv + 1
           /\ lastEvent'.kind = "DragStart"
           /\ lastEvent'.button # "Primary") => session' = session]_vars

\* C2 witness: a middle-button drag-start with a hit position has been
\* delivered while a session with a drag distance exists.
C2_Witness ==
    /\ session.present
    /\ session.distance # Vec2Zero
    /\ lastEvent = [kind |-> "DragStart", button |-> "Middle", hasPos |-> TRUE]

\* C3: each axis of the linear impulse drag_system writes has magnitude at
\* most GAIN.
C3_ImpulseClamped ==
    \A i \in 1..3 : Abs(ext.impulse[i]) <= GAIN

\* C3 witness: the target is more than one world unit from the drag point
\* on some axis, and the impulse on that axis is exactly GAIN in magnitude.
C3_Witness ==
    /\ calc.valid
    /\ \E i \in 1..3 : /\ Abs(calc.target[i] - calc.point[i]) > ONE[i]
                       /\ Abs(ext.impulse[i]) = GAIN

\* C4 (as claimed): once drag_system has run in a frame with a session, the
\* session's distance is that of the last drag event delivered since the
\* session's drag-start, or (0,0) if there was none.
C4_DistanceTracksSession ==
    (session.present /\ "drag_system" \in ran) => session.distance = expected

\* C5 (as claimed): a primary-button drag-start without a hit position
\* creates no session and the program keeps running.
C5_NoPositionKeepsRunning ==
    [][(nEv' = nEv + 1 /\ lastEvent' = PrimaryNoPosition)
         => (session' = session /\ ~crashed')]_vars

\* C5 (amended): a primary-button drag-start without a hit position creates
\* no session and the listener panics, which ends the program.
C5_NoPositionPanics ==
    /\ [][(nEv' = nEv + 1 /\ lastEvent' = PrimaryNoPosition)
            => (session' = session /\ crashed')]_vars
    /\ [](crashed => ~ENABLED Next)

\* C5 witness: the program has panicked on a primary-button drag-start
\* without a position, and no session exists.
C5_Witness ==
    /\ crashed
    /\ lastEvent = PrimaryNoPosition
    /\ ~session.present

\* C6 (as claimed): in every frame the accumulator runs before the camera
\* update, which runs before drag_system.
C6_FixedSystemOrder ==
    /\ "update_camera_system" \in ran => "accumulate_mouse_events_system" \in ran
    /\ "drag_system" \in ran => "update_camera_system" \in ran

\* C7: the stored offset is the hit point in the body's frame: at drag-start
\* the body's transform maps it to origin, and after any motions of the body
\* the drag point is where those motions carried the hit point.
C7_OffsetTracksHitPoint ==
    /\ session.present => transform_point(body, session.offset) = grab
    /\ calc.valid => calc.point = grab
    /\ (session.present /\ lastEvent.kind = "DragStart" /\ lastEvent.button = "Primary"
          /\ lastEvent.hasPos)
         => transform_point(body, session.offset) = session.origin

\* C7 witness: the box was grabbed off-centre, has since been rotated and
\* translated, and drag_system computed a drag point away from origin.
C7_Witness ==
    /\ calc.valid
    /\ session.offset = <<5, 5, 0>>
    /\ body.matrix3 # I3
    /\ body.translation # BoxTransform.translation
    /\ calc.point # session.origin

\* C8 (as claimed): target - origin is zoom_factor times the y-zeroed
\* distance.x * right - distance.y * up; with distance (0,0) the target is
\* origin whatever the camera's position, and a body at rest gets no impulse.
C8_TargetFromDistanceOnly ==
    calc.valid =>
        /\ calc.target =
             Add(calc.origin,
                 DivVec(Scale(zoom_factor(session, camGlobal),
                              SetY(Sub(Scale(100 * calc.distance[1], right(camGlobal)),
                                       Scale(100 * calc.distance[2], up(camGlobal))), 0)),
                        1000000))
        /\ calc.distance = Vec2Zero => calc.target = calc.origin
        /\ (calc.distance = Vec2Zero /\ calc.point = calc.origin) => ext.impulse = ZERO

\* C9 (as claimed): when the linear impulse or the horizontal lever arm is
\* the zero vector, the torque impulse written is exactly zero, never NaN.
C9_DegenerateTorqueIsZero ==
    (calc.valid /\ (ext.impulse = ZERO \/ calc.com = ZERO))
        => ext.torque_impulse = Finite(ZERO)

\* C10 (as claimed): the target drag_system computes has y = 0.
C10_TargetOnGround ==
    calc.valid => calc.target[2] = 0

\* C10 (amended): the target drag_system computes has the y of origin, the
\* horizontal plane through the hit point.
C10_TargetAtOriginHeight ==
    calc.valid => calc.target[2] = calc.origin[2]

\* C10 witness: a hit above the ground, a camera whose up axis is vertical
\* and a vertical pointer distance: the target moved, at origin's height.
C10_Witness ==
    /\ calc.valid
    /\ calc.origin[2] # 0
    /\ calc.distance[2] # 0
    /\ up(camGlobal)[2] # 0
    /\ calc.target # calc.origin
    /\ calc.target[2] = calc.origin[2]

====
